---- MODULE Spec2Model ----
(***************************************************************************)
(* Model of the ADEmergentVision areaDetector driver                       *)
(* (evtApp/src/ADEmergentVision.cpp).                                      *)
(*                                                                         *)
(* Two kinds of threads act on one driver object:                          *)
(*   - the control thread (process CTL): the asyn port thread, which runs  *)
(*     connect, disconnect and writeInt32 one handler at a time;           *)
(*   - producer threads (processes 1..MaxThreads): each one execution of   *)
(*     evtCallback, detached by startImageAcquisitionThread.  evtCallback  *)
(*     never takes the port lock, so its steps interleave freely with the  *)
(*     control thread's.                                                   *)
(* The flags imageCollectionThreadActive and imageThreadOpen are plain     *)
(* ints accessed without synchronisation; every access is one step and the *)
(* steps interleave in any order.                                          *)
(* The vendor SDK is external: each EVT_* call returns EVT_SUCCESS or      *)
(* an error, chosen freely.                                                *)
(***************************************************************************)
EXTENDS Integers, Sequences, FiniteSets, TLC

\* ---------------------------------------------------------------- bounds
MaxThreads == 2
MaxCounter == 3
MaxNumImages == 2
MaxRequests == 4
MaxValue == 1

\* ----------------------------------------------------- program constants
DefaultFramerate == 30
MultipleNumImages == 100
ExposureScale == 1000
GainScale == 1000

CTL == 0
Threads == 1..MaxThreads
Procs == {CTL} \cup Threads

asynSuccess == "asynSuccess"
asynError == "asynError"
EVT_SUCCESS == "EVT_SUCCESS"
EVT_ERROR == "EVT_ERROR"
EVT_Results == {EVT_SUCCESS, EVT_ERROR}

ADImageSingle == "ADImageSingle"
ADImageMultiple == "ADImageMultiple"
ADImageContinuous == "ADImageContinuous"
ImageModes == {ADImageSingle, ADImageMultiple, ADImageContinuous}
ADStatusIdle == "ADStatusIdle"
ADStatusAcquire == "ADStatusAcquire"

\* NDDataType_t and NDColorMode_t values a client can select; NDFloat32 and
\* NDColorModeRGB2 stand for the values getFrameFormatEVT has no case for.
NDUInt8 == "NDUInt8"
NDUInt16 == "NDUInt16"
NDFloat32 == "NDFloat32"
DataTypes == {NDUInt8, NDUInt16, NDFloat32}
NDColorModeMono == "NDColorModeMono"
NDColorModeBayer == "NDColorModeBayer"
NDColorModeRGB1 == "NDColorModeRGB1"
NDColorModeRGB2 == "NDColorModeRGB2"
ColorModes == {NDColorModeMono, NDColorModeBayer, NDColorModeRGB1, NDColorModeRGB2}

VARIABLES
    connected,                    \* int connected
    pdeviceInfo,                  \* struct GigEVisionDeviceInfo* pdeviceInfo
    cameraOpen,                   \* the device: camera handle open
    streamOpen,                   \* the device: streaming channel open
    evt_status,                   \* EVT_ERROR evt_status
    imageCollectionThreadActive,  \* int imageCollectionThreadActive
    imageThreadOpen,              \* int imageThreadOpen
    params,                       \* the asyn parameter library
    pc,                           \* position of every process
    th,                           \* locals of every evtCallback execution
    published,                    \* uniqueIds given to doCallbacksGenericPointer since the last acquireStart
    reply,                        \* the handler the control thread runs / has just returned from
    crashed,                      \* the process died of undefined behaviour
    requests                      \* number of requests the control thread has taken

vars == <<connected, pdeviceInfo, cameraOpen, streamOpen, evt_status,
          imageCollectionThreadActive, imageThreadOpen, params, pc, th,
          published, reply, crashed, requests>>

\* What a handler can change or read: the driver object, the device, the threads.
EngineState == <<connected, pdeviceInfo, cameraOpen, streamOpen,
                 imageCollectionThreadActive, imageThreadOpen, params,
                 [t \in Threads |-> pc[t]], th, published>>

NoReply == [op |-> "none", arg |-> "none", ret |-> "none",
            calls |-> {}, freed |-> "none"]

\* The dataType and colorMode locals of evtFrame2NDArray (lines 526-527) before
\* getFrameFormatND has written them.
NoFormat == [status |-> "none", dataType |-> "none", colorMode |-> "none"]

\* Locals of evtCallback before its first iteration (and of a thread that is gone).
NoLocals == [imageMode |-> "none", imageCounter |-> 0, status |-> asynSuccess,
             nAlloc |-> 0, nRelease |-> 0, after |-> "none",
             dataType |-> "none", colorMode |-> "none",
             convert |-> "none", evtPixelType |-> "unset",
             afterPublish |-> <<>>, selfStop |-> FALSE,
             streamClosed |-> FALSE, ndFormat |-> NoFormat]

Alive(t) == pc[t] # "dead"
AliveThreads == {t \in Threads : Alive(t)}

\* The handler has returned and its status is being handed to the caller.
Observing == reply.ret \in {asynSuccess, asynError}
Running == ~crashed /\ ~Observing
CtlIdle == pc[CTL] = "idle" /\ reply.op = "none"

\* The control thread takes the next request off the port's queue.
TakeRequest == CtlIdle /\ requests < MaxRequests /\ requests' = requests + 1

\* The object as the member initialisers of the header leave it, before the
\* constructor's own connectToDeviceEVT (line 1194, not made for an empty serial
\* number): pdeviceInfo has no initialiser, so it is NULL or anything else.
Init ==
    /\ connected = 0
    /\ pdeviceInfo \in {"NULL", "wild"}
    /\ cameraOpen = FALSE
    /\ streamOpen = FALSE
    /\ evt_status = EVT_SUCCESS
    /\ imageCollectionThreadActive = 0
    /\ imageThreadOpen = 0
    /\ params = [ADAcquire |-> 0, ADStatus |-> ADStatusIdle,
                 ADImageMode |-> ADImageContinuous, ADNumImages |-> 1,
                 ADNumImagesCounter |-> 0, ADEVT_Framerate |-> 0,
                 NDDataType |-> NDUInt8, NDColorMode |-> NDColorModeMono,
                 ADEVT_OffsetX |-> 0, ADEVT_OffsetY |-> 0, ADEVT_BufferNum |-> 0,
                 ADEVT_PacketSize |-> 0, ADAcquireTime |-> 0, ADGain |-> 0]
    /\ pc = [p \in Procs |-> IF p = CTL THEN "idle" ELSE "dead"]
    /\ th = [t \in Threads |-> NoLocals]
    /\ published = <<>>
    /\ reply = NoReply
    /\ crashed = FALSE
    /\ requests = 0

\* The record a handler leaves when it returns in the step that entered it:
\* its status, the device calls it made, what it passed to free().
Returned(op, arg, ret, calls, freed) ==
    [op |-> op, arg |-> arg, ret |-> ret, calls |-> calls, freed |-> freed]

\* The record of a handler that is still running (acquireStart, acquireStop).
Pending(op, arg, calls) ==
    [op |-> op, arg |-> arg, ret |-> "pending", calls |-> calls, freed |-> "none"]

\* ------------------------------------------------ connect / disconnect

\* connectToDeviceEVT, reached from connect() and from the constructor.
\*   found : what EVT_ListDevices reports ("listError", "noDevice", or whether
\*           a listed device carries this->serialNumber: "match" / "noMatch")
\*   r     : what EVT_CameraOpen returns
\*   dies  : whether reading a descriptor that is not a live allocation kills
\*           the process (printConnectedDeviceInfo dereferences pdeviceInfo)
connectToDeviceEVT(found, r, dies) ==
    LET info == IF found = "match" THEN "alloc" ELSE pdeviceInfo
        opens == found \in {"match", "noMatch"} /\ info # "NULL"
        ub == opens /\ info \in {"wild", "freed"}
        ok == opens /\ r = EVT_SUCCESS
        calls == IF opens THEN {"EVT_ListDevices", "EVT_CameraOpen"}
                          ELSE {"EVT_ListDevices"}
    IN  /\ Running /\ TakeRequest
        /\ dies => ub
        /\ crashed' = dies
        /\ evt_status' = IF found = "listError" THEN EVT_ERROR
                         ELSE IF opens THEN r ELSE EVT_SUCCESS
        /\ pdeviceInfo' = IF found \in {"match", "noMatch"} THEN info ELSE pdeviceInfo
        /\ cameraOpen' = (cameraOpen \/ (ok /\ ~dies))
        /\ connected' = IF ok /\ ~dies THEN 1 ELSE connected
        /\ reply' = Returned("connect", found,
                             IF ok THEN asynSuccess ELSE asynError, calls, "none")
        /\ UNCHANGED <<streamOpen, imageCollectionThreadActive, imageThreadOpen,
                       params, pc, th, published>>

Connect ==
    \E found \in {"listError", "noDevice", "noMatch", "match"},
       r \in EVT_Results, dies \in BOOLEAN :
        connectToDeviceEVT(found, r, dies)

\* What free(pdeviceInfo) is applied to.
FreeKind(p) ==
    CASE p = "alloc" -> "ok"
      [] p = "freed" -> "double"
      [] p = "wild"  -> "wild"
      [] OTHER       -> "none"

\* disconnectFromDeviceEVT, reached from disconnect() and from the destructor.
\* connected is cleared first, so the acquireStop() of line 204 returns at
\* its own connected check (line 371) and changes nothing.
\*   r    : what EVT_CameraClose returns
\*   dies : whether free() of a pointer that is not a live allocation kills
\*          the process
disconnectFromDeviceEVT(r, dies) ==
    LET frees == pdeviceInfo # "NULL"
        ub == frees /\ pdeviceInfo \in {"wild", "freed"}
    IN  /\ Running /\ TakeRequest
        /\ dies => ub
        /\ crashed' = dies
        /\ connected' = 0
        /\ pdeviceInfo' = IF pdeviceInfo = "alloc" THEN "freed" ELSE pdeviceInfo
        /\ evt_status' = IF frees THEN r ELSE evt_status
        /\ cameraOpen' = IF frees /\ r = EVT_SUCCESS /\ ~dies THEN FALSE ELSE cameraOpen
        /\ reply' = Returned("disconnect", "none",
                             IF frees /\ r = EVT_SUCCESS THEN asynSuccess ELSE asynError,
                             IF frees THEN {"EVT_CameraClose"} ELSE {},
                             FreeKind(pdeviceInfo))
        /\ UNCHANGED <<streamOpen, imageCollectionThreadActive, imageThreadOpen,
                       params, pc, th, published>>

Disconnect ==
    \E r \in EVT_Results, dies \in BOOLEAN : disconnectFromDeviceEVT(r, dies)

\* The control thread hands the status to its caller and takes the next request.
Return ==
    /\ ~crashed /\ Observing
    /\ reply' = NoReply
    /\ UNCHANGED requests
    /\ UNCHANGED <<connected, pdeviceInfo, cameraOpen, streamOpen, evt_status,
                   imageCollectionThreadActive, imageThreadOpen, params, pc, th,
                   published, crashed>>

\* ------------------------------------------------ acquireStart / acquireStop

\* The seven EVT_CameraSet*Param calls of setCameraValues; their results are dropped.
SetCameraValuesCalls == {"EVT_CameraSetEnumParam", "EVT_CameraSetUInt32Param"}

\* acquireStart up to and including EVT_CameraOpenStream (lines 330-342), entered
\* from writeInt32 with the parameter library p that already holds ADAcquire = 1.
\*   r : what EVT_CameraOpenStream returns
acquireStart(p, r) ==
    LET p2 == [p EXCEPT !.ADEVT_Framerate = DefaultFramerate]
    IN  /\ params' = p2
        /\ IF connected = 0
           THEN /\ reply' = Returned("writeAcquire", 1, asynError, {}, "none")
                /\ UNCHANGED <<evt_status, streamOpen, pc, published>>
           ELSE /\ evt_status' = r
                /\ streamOpen' = (streamOpen \/ r = EVT_SUCCESS)
                /\ pc' = [pc EXCEPT ![CTL] = "start_thread"]
                /\ published' = <<>>
                /\ reply' = Pending("writeAcquire", 1,
                                    SetCameraValuesCalls \cup {"EVT_CameraOpenStream"})
        /\ UNCHANGED <<connected, pdeviceInfo, cameraOpen,
                       imageCollectionThreadActive, imageThreadOpen, th, crashed>>

\* The slot a new evtCallback execution takes.
FreeSlot == CHOOSE t \in Threads : ~Alive(t) /\ \A u \in Threads : ~Alive(u) => t <= u

\* startImageAcquisitionThread (lines 287-297): the flag decides whether a
\* thread is created.
startImageAcquisitionThread ==
    IF imageCollectionThreadActive = 0
    THEN /\ \E t \in Threads : ~Alive(t)
         /\ imageCollectionThreadActive' = 1
         /\ pc' = [pc EXCEPT ![CTL] = "idle", ![FreeSlot] = "begin"]
    ELSE /\ pc' = [pc EXCEPT ![CTL] = "idle"]
         /\ UNCHANGED imageCollectionThreadActive

\* acquireStart from startImageAcquisitionThread() to its return (lines 343-359).
StartThread ==
    /\ Running /\ pc[CTL] = "start_thread"
    /\ UNCHANGED requests
    /\ startImageAcquisitionThread
    /\ IF evt_status # EVT_SUCCESS
       THEN /\ params' = [params EXCEPT !.ADAcquire = 0, !.ADStatus = ADStatusIdle]
            /\ reply' = [reply EXCEPT !.ret = asynError]
       ELSE /\ params' = [params EXCEPT !.ADStatus = ADStatusAcquire]
            /\ reply' = [reply EXCEPT !.ret = asynSuccess]
    /\ UNCHANGED <<connected, pdeviceInfo, cameraOpen, streamOpen, evt_status,
                   imageThreadOpen, th, published, crashed>>

\* ADNumImages after a write of ADImageMode (lines 1074-1075).
NumImagesFor(mode, old) ==
    IF mode = ADImageSingle THEN 1
    ELSE IF mode = ADImageMultiple THEN MultipleNumImages
    ELSE old

\* The locals of the producers once the control thread's acquireStop has
\* issued EVT_CameraCloseStream (line 383): every evtCallback execution alive
\* at that moment belongs to a session whose stream-close has been issued.
AfterControlClose ==
    [t \in Threads |-> IF Alive(t) THEN [th[t] EXCEPT !.streamClosed = TRUE]
                                   ELSE th[t]]

\* acquireStop from its poll to its return as it would be if a failed
\* EVT_CameraCloseStream returned before lines 390-391.
acquireStopPoll_CloseBlocks(self, r) ==
    LET status == IF r = EVT_SUCCESS THEN asynSuccess ELSE asynError
        p1 == IF r = EVT_SUCCESS
              THEN [params EXCEPT !.ADStatus = ADStatusIdle, !.ADAcquire = 0]
              ELSE params
    IN  /\ Running /\ pc[self] = "stop_poll"
        /\ UNCHANGED requests
        /\ imageThreadOpen # 1
        /\ evt_status' = r
        /\ streamOpen' = IF r = EVT_SUCCESS THEN FALSE ELSE streamOpen
        /\ IF self = CTL
           THEN /\ pc' = [pc EXCEPT ![CTL] = "idle"]
                /\ params' = p1
                /\ reply' = [reply EXCEPT !.ret = status,
                                !.calls = {"EVT_CameraCloseStream"}]
                /\ th' = AfterControlClose
           ELSE /\ pc' = [pc EXCEPT ![self] = th[self].after]
                /\ th' = [th EXCEPT ![self].after = "none"]
                /\ params' = p1
                /\ UNCHANGED reply
        /\ UNCHANGED <<connected, pdeviceInfo, cameraOpen,
                       imageCollectionThreadActive, imageThreadOpen, published, crashed>>

\* acquireStop from its poll of imageThreadOpen to its return (lines 381-394),
\* run by the control thread (from writeInt32) or by a producer (from
\* evtCallback).  Entered with imageCollectionThreadActive already cleared.
\*   r : what EVT_CameraCloseStream returns
acquireStopPoll(self, r) ==
    LET status == IF r = EVT_SUCCESS THEN asynSuccess ELSE asynError
        p1 == [params EXCEPT !.ADStatus = ADStatusIdle, !.ADAcquire = 0]
    IN  /\ Running /\ pc[self] = "stop_poll"
        /\ UNCHANGED requests
        /\ imageThreadOpen # 1
        /\ evt_status' = r
        /\ streamOpen' = IF r = EVT_SUCCESS THEN FALSE ELSE streamOpen
        /\ IF self = CTL
           THEN /\ pc' = [pc EXCEPT ![CTL] = "idle"]
                /\ IF reply.op = "writeImageMode"
                   THEN /\ params' = [p1 EXCEPT !.ADNumImages =
                                          NumImagesFor(reply.arg, p1.ADNumImages)]
                        /\ reply' = [reply EXCEPT !.ret = asynSuccess,
                                        !.calls = {"EVT_CameraCloseStream"}]
                   ELSE /\ params' = p1
                        /\ reply' = [reply EXCEPT !.ret = status,
                                        !.calls = {"EVT_CameraCloseStream"}]
                /\ th' = AfterControlClose
           ELSE /\ pc' = [pc EXCEPT ![self] = th[self].after]
                /\ th' = [th EXCEPT ![self].after = "none"]
                /\ params' = p1
                /\ UNCHANGED reply
        /\ UNCHANGED <<connected, pdeviceInfo, cameraOpen,
                       imageCollectionThreadActive, imageThreadOpen, published, crashed>>

StopPoll == \E self \in Procs, r \in EVT_Results : acquireStopPoll(self, r)

\* ------------------------------------------------ writeInt32

\* writeInt32 with function == ADAcquire as it would be with line 1065 reading
\* if(value) instead of if(value && !acquiring): every write of a nonzero value
\* runs acquireStart.
writeInt32_ADAcquire_NoGuard(value, r) ==
    LET acquiring == params.ADAcquire
        p1 == [params EXCEPT !.ADAcquire = value]
    IN  /\ Running /\ TakeRequest
        /\ IF value # 0
           THEN acquireStart(p1, r)
           ELSE IF acquiring # 0
           THEN /\ params' = p1
                /\ IF connected = 0
                   THEN /\ reply' = Returned("writeAcquire", 0, asynError, {}, "none")
                        /\ UNCHANGED <<pc, imageCollectionThreadActive>>
                   ELSE /\ imageCollectionThreadActive' = 0
                        /\ pc' = [pc EXCEPT ![CTL] = "stop_poll"]
                        /\ reply' = Pending("writeAcquire", 0, {})
                /\ UNCHANGED <<connected, pdeviceInfo, cameraOpen, streamOpen,
                               evt_status, imageThreadOpen, th, published, crashed>>
           ELSE /\ params' = p1
                /\ reply' = Returned("writeAcquire", value, asynSuccess, {}, "none")
                /\ UNCHANGED <<connected, pdeviceInfo, cameraOpen, streamOpen,
                               evt_status, imageCollectionThreadActive,
                               imageThreadOpen, pc, th, published, crashed>>

\* writeInt32 with function == ADAcquire (lines 1056-1070).
\*   r : what EVT_CameraOpenStream returns, when acquireStart gets that far
writeInt32_ADAcquire(value, r) ==
    LET acquiring == params.ADAcquire
        p1 == [params EXCEPT !.ADAcquire = value]
    IN  /\ Running /\ TakeRequest
        /\ IF value # 0 /\ acquiring = 0
           THEN acquireStart(p1, r)
           ELSE IF value = 0 /\ acquiring # 0
           THEN \* acquireStop, lines 370-379
                /\ params' = p1
                /\ IF connected = 0
                   THEN /\ reply' = Returned("writeAcquire", 0, asynError, {}, "none")
                        /\ UNCHANGED <<pc, imageCollectionThreadActive>>
                   ELSE /\ imageCollectionThreadActive' = 0
                        /\ pc' = [pc EXCEPT ![CTL] = "stop_poll"]
                        /\ reply' = Pending("writeAcquire", 0, {})
                /\ UNCHANGED <<connected, pdeviceInfo, cameraOpen, streamOpen,
                               evt_status, imageThreadOpen, th, published, crashed>>
           ELSE /\ params' = p1
                /\ reply' = Returned("writeAcquire", value, asynSuccess, {}, "none")
                /\ UNCHANGED <<connected, pdeviceInfo, cameraOpen, streamOpen,
                               evt_status, imageCollectionThreadActive,
                               imageThreadOpen, pc, th, published, crashed>>

WriteAcquire == \E value \in {0, 1}, r \in EVT_Results : writeInt32_ADAcquire(value, r)

\* writeInt32 with function == ADImageMode (lines 1072-1076).
writeInt32_ADImageMode(value) ==
    LET acquiring == params.ADAcquire
        p1 == [params EXCEPT !.ADImageMode = value]
        p2 == [p1 EXCEPT !.ADNumImages = NumImagesFor(value, p1.ADNumImages)]
    IN  /\ Running /\ TakeRequest
        /\ IF acquiring # 0 /\ connected # 0
           THEN /\ params' = p1
                /\ imageCollectionThreadActive' = 0
                /\ pc' = [pc EXCEPT ![CTL] = "stop_poll"]
                /\ reply' = Pending("writeImageMode", value, {})
           ELSE /\ params' = p2
                /\ reply' = Returned("writeImageMode", value, asynSuccess, {}, "none")
                /\ UNCHANGED <<pc, imageCollectionThreadActive>>
        /\ UNCHANGED <<connected, pdeviceInfo, cameraOpen, streamOpen, evt_status,
                       imageThreadOpen, th, published, crashed>>

WriteImageMode == \E value \in ImageModes : writeInt32_ADImageMode(value)

\* writeInt32 with function == ADNumImages: the parameter is stored (line 1058)
\* and the write is passed to the base class (line 1085).
writeInt32_ADNumImages(value) ==
    /\ Running /\ TakeRequest
    /\ params' = [params EXCEPT !.ADNumImages = value]
    /\ reply' = Returned("writeNumImages", value, asynSuccess, {}, "none")
    /\ UNCHANGED <<connected, pdeviceInfo, cameraOpen, streamOpen, evt_status,
                   imageCollectionThreadActive, imageThreadOpen, pc, th,
                   published, crashed>>

WriteNumImages == \E value \in 1..MaxNumImages : writeInt32_ADNumImages(value)

\* writeInt32 with function == NDDataType or NDColorMode: the parameter is
\* stored (line 1058) and the write is passed to the base class (line 1085).
writeInt32_Format(name, value) ==
    /\ Running /\ TakeRequest
    /\ params' = [params EXCEPT ![name] = value]
    /\ reply' = Returned("writeFormat", <<name, value>>, asynSuccess, {}, "none")
    /\ UNCHANGED <<connected, pdeviceInfo, cameraOpen, streamOpen, evt_status,
                   imageCollectionThreadActive, imageThreadOpen, pc, th,
                   published, crashed>>

WriteDataType == \E value \in DataTypes : writeInt32_Format("NDDataType", value)
WriteColorMode == \E value \in ColorModes : writeInt32_Format("NDColorMode", value)

\* ------------------------------------------------ device parameters

\* The values a client writes.
Values == 0..MaxValue

\* The integer parameters of the driver that stand for a device parameter.
Int32DeviceParams == {"ADEVT_Framerate", "ADEVT_OffsetX", "ADEVT_OffsetY",
                      "ADEVT_BufferNum", "ADEVT_PacketSize"}

\* The SDK write the setter of a parameter issues (setEVTFramerate,
\* setEVTOffsetX, setEVTOffsetY, setEVTBufferNum, setEVTGain, setEVTExposure).
\* writeInt32 has no branch for ADEVT_PacketSize.
DeviceWrite(name) ==
    CASE name = "ADEVT_Framerate" -> "EVT_CameraSetUInt32Param(FrameRate)"
      [] name = "ADEVT_OffsetX"   -> "EVT_CameraSetUInt32Param(OffsetX)"
      [] name = "ADEVT_OffsetY"   -> "EVT_CameraSetUInt32Param(OffsetY)"
      [] name = "ADEVT_BufferNum" -> "EVT_CameraSetUInt32Param(Offset)"
      [] name = "ADGain"          -> "EVT_CameraSetUInt32Param(Gain)"
      [] name = "ADAcquireTime"   -> "EVT_CameraSetUInt32Param(Exposure)"
      [] OTHER                    -> "none"

DeviceWrites ==
    {DeviceWrite(n) : n \in (Int32DeviceParams \ {"ADEVT_PacketSize"})
                              \cup {"ADGain", "ADAcquireTime"}}

\* The two bound queries of setEVTExposure.
ExposureQueries == {"EVT_CameraGetUInt32ParamMax(Exposure)",
                    "EVT_CameraGetUInt32ParamMin(Exposure)"}

\* What the device is handed for a written value: writeFloat64 scales the
\* exposure time and the gain (lines 1114, 1118), writeInt32 passes the value on.
DeviceValue(name, value) ==
    CASE name = "ADAcquireTime" -> value * ExposureScale
      [] name = "ADGain"        -> value * GainScale
      [] OTHER                  -> value

\* The bounds a device can report for a parameter.
DeviceValues(name) == {DeviceValue(name, v) : v \in Values}

\* What a parameter write leaves for its caller; min and max are the bounds
\* the device reports for the parameter at the time of the write.
ParamWrite(name, value, min, max) ==
    [name |-> name, value |-> value, device |-> DeviceValue(name, value),
     min |-> min, max |-> max]

\* setEVTFramerate, setEVTOffsetX, setEVTOffsetY, setEVTBufferNum and
\* setEVTGain: the connected check, then one device write.
\*   r : what EVT_CameraSetUInt32Param returns
setEVTUInt32Param(name, r) ==
    IF connected = 0
    THEN [ret |-> asynError, calls |-> {}, evt |-> evt_status]
    ELSE [ret |-> IF r = EVT_SUCCESS THEN asynSuccess ELSE asynError,
          calls |-> {DeviceWrite(name)}, evt |-> r]

\* setEVTExposure (lines 1010-1034).  The results of the two bound queries
\* are dropped: after a failed query the local it should have filled is
\* uninitialised and the comparison reads whatever it holds.
\*   rMax, rMin : what the bound queries return
\*   gMax, gMin : what the locals hold after the queries
\*   r          : what EVT_CameraSetUInt32Param returns
setEVTExposure(exposure, rMax, rMin, gMax, gMin, r) ==
    IF connected = 0
    THEN [ret |-> asynError, calls |-> {}, evt |-> evt_status]
    ELSE IF exposure >= gMin /\ exposure <= gMax
    THEN [ret |-> IF r = EVT_SUCCESS THEN asynSuccess ELSE asynError,
          calls |-> ExposureQueries \cup {DeviceWrite("ADAcquireTime")},
          evt |-> r]
    ELSE [ret |-> asynError, calls |-> ExposureQueries, evt |-> rMin]

\* The end of writeInt32 / writeFloat64 for a device parameter: the value has
\* been stored in the parameter library before the setter ran (lines 1058, 1111).
StoreAndReturn(name, value, min, max, out) ==
    /\ Running /\ TakeRequest
    /\ params' = [params EXCEPT ![name] = value]
    /\ evt_status' = out.evt
    /\ reply' = Returned("writeParam", ParamWrite(name, value, min, max),
                         out.ret, out.calls, "none")
    /\ UNCHANGED <<connected, pdeviceInfo, cameraOpen, streamOpen,
                   imageCollectionThreadActive, imageThreadOpen, pc, th,
                   published, crashed>>

\* writeInt32 with function one of the ADEVT_* device parameters (lines 1077-1080).
writeInt32_DeviceParam(name, value, min, max, r) ==
    StoreAndReturn(name, value, min, max,
                   IF name = "ADEVT_PacketSize"
                   THEN [ret |-> asynSuccess, calls |-> {}, evt |-> evt_status]
                   ELSE setEVTUInt32Param(name, r))

WriteDeviceParam ==
    \E name \in Int32DeviceParams, value \in Values,
       min \in Values, max \in Values, r \in EVT_Results :
        min <= max /\ writeInt32_DeviceParam(name, value, min, max, r)

\* writeFloat64 with function == ADAcquireTime (lines 1111-1116).
writeFloat64_ADAcquireTime(value, min, max, rMax, rMin, gMax, gMin, r) ==
    StoreAndReturn("ADAcquireTime", value, min, max,
                   setEVTExposure(DeviceValue("ADAcquireTime", value),
                                  rMax, rMin, gMax, gMin, r))

WriteAcquireTime ==
    \E value \in Values,
       min \in DeviceValues("ADAcquireTime"), max \in DeviceValues("ADAcquireTime"),
       rMax \in EVT_Results, rMin \in EVT_Results,
       gMax \in DeviceValues("ADAcquireTime"), gMin \in DeviceValues("ADAcquireTime"),
       r \in EVT_Results :
        /\ min <= max
        /\ rMax = EVT_SUCCESS => gMax = max
        /\ rMin = EVT_SUCCESS => gMin = min
        /\ writeFloat64_ADAcquireTime(value, min, max, rMax, rMin, gMax, gMin, r)

\* writeFloat64 with function == ADGain (lines 1117-1120).
writeFloat64_ADGain(value, min, max, r) ==
    StoreAndReturn("ADGain", value, min, max, setEVTUInt32Param("ADGain", r))

WriteGain ==
    \E value \in Values,
       min \in DeviceValues("ADGain"), max \in DeviceValues("ADGain"),
       r \in EVT_Results :
        min <= max /\ writeFloat64_ADGain(value, min, max, r)

\* ------------------------------------------------ evtCallback (producer thread)

\* Line 591: the thread announces itself.
ThreadBegin(t) ==
    /\ Running /\ pc[t] = "begin"
    /\ UNCHANGED requests
    /\ imageThreadOpen' = 1
    /\ pc' = [pc EXCEPT ![t] = "loop"]
    /\ UNCHANGED <<connected, pdeviceInfo, cameraOpen, streamOpen, evt_status,
                   imageCollectionThreadActive, params, th, published, reply, crashed>>

\* getFrameFormatEVT as it would be with the default labels falling back to
\* 8-bit mono instead of returning asynError.
getFrameFormatEVT_DefaultMono(dataType, colorMode) ==
    LET mono8 == [status |-> asynSuccess, evtPixelType |-> "GVSP_PIX_MONO8"]
    IN  CASE colorMode = NDColorModeMono ->
                (CASE dataType = NDUInt16 -> [status |-> asynSuccess, evtPixelType |-> "UNPACK_PIX_MONO16"]
                   [] OTHER               -> mono8)
          [] colorMode = NDColorModeRGB1 ->
                (CASE dataType = NDUInt8  -> [status |-> asynSuccess, evtPixelType |-> "GVSP_PIX_RGB8"]
                   [] dataType = NDUInt16 -> [status |-> asynSuccess, evtPixelType |-> "UNPACK_PIX_RGB16"]
                   [] OTHER               -> mono8)
          [] colorMode = NDColorModeBayer ->
                (CASE dataType = NDUInt8  -> [status |-> asynSuccess, evtPixelType |-> "CONVERT_PIX_BAYRG8"]
                   [] dataType = NDUInt16 -> [status |-> asynSuccess, evtPixelType |-> "CONVERT_PIX_BAYRG16"]
                   [] OTHER               -> mono8)
          [] OTHER -> mono8

\* getFrameFormatEVT (lines 407-457): the switch over colorMode and dataType.
\* Lines 470-508: the data type and color mode of a frame of the given device
\* pixel format.  The switch writes both outputs (the default branch only the
\* data type); line 506 then overwrites the color mode, and the status
\* returned is always asynSuccess.
getFrameFormatND(pixel_type) ==
    LET bySwitch ==
            CASE pixel_type = "GVSP_PIX_MONO8"
                     -> [dataType |-> NDUInt8,  colorMode |-> NDColorModeMono]
              [] pixel_type = "GVSP_PIX_RGB8"
                     -> [dataType |-> NDUInt8,  colorMode |-> NDColorModeRGB1]
              [] pixel_type = "UNPACK_PIX_MONO16"
                     -> [dataType |-> NDUInt16, colorMode |-> NDColorModeMono]
              [] pixel_type = "UNPACK_PIX_RGB16"
                     -> [dataType |-> NDUInt16, colorMode |-> NDColorModeRGB1]
              [] pixel_type = "CONVERT_PIX_BAYRG8"
                     -> [dataType |-> NDUInt8,  colorMode |-> NDColorModeBayer]
              [] pixel_type = "CONVERT_PIX_BAYRG16"
                     -> [dataType |-> NDUInt16, colorMode |-> NDColorModeBayer]
              [] OTHER
                     -> [dataType |-> NDUInt8,  colorMode |-> "unset"]
    IN [status |-> asynSuccess,
        dataType |-> bySwitch.dataType,
        colorMode |-> NDColorModeMono]

\* On the error paths *evtPixelType is not written.
getFrameFormatEVT(dataType, colorMode) ==
    CASE colorMode = NDColorModeMono ->
            (CASE dataType = NDUInt8  -> [status |-> asynSuccess, evtPixelType |-> "GVSP_PIX_MONO8"]
               [] dataType = NDUInt16 -> [status |-> asynSuccess, evtPixelType |-> "UNPACK_PIX_MONO16"]
               [] OTHER               -> [status |-> asynError, evtPixelType |-> "unset"])
      [] colorMode = NDColorModeRGB1 ->
            (CASE dataType = NDUInt8  -> [status |-> asynSuccess, evtPixelType |-> "GVSP_PIX_RGB8"]
               [] dataType = NDUInt16 -> [status |-> asynSuccess, evtPixelType |-> "UNPACK_PIX_RGB16"]
               [] OTHER               -> [status |-> asynError, evtPixelType |-> "unset"])
      [] colorMode = NDColorModeBayer ->
            (CASE dataType = NDUInt8  -> [status |-> asynSuccess, evtPixelType |-> "CONVERT_PIX_BAYRG8"]
               [] dataType = NDUInt16 -> [status |-> asynSuccess, evtPixelType |-> "CONVERT_PIX_BAYRG16"]
               [] OTHER               -> [status |-> asynError, evtPixelType |-> "unset"])
      [] OTHER -> [status |-> asynError, evtPixelType |-> "unset"]

\* The loop head as it would be if a format that does not resolve ended the
\* loop (a break after line 612) instead of only ending the iteration.
LoopHead_FormatErrorBreaks(t) ==
    LET fmt == getFrameFormatEVT(params.NDDataType, params.NDColorMode)
        locals == [imageMode |-> params.ADImageMode,
                   imageCounter |-> params.ADNumImagesCounter,
                   status |-> asynSuccess,
                   nAlloc |-> 0, nRelease |-> 0, after |-> "none",
                   dataType |-> params.NDDataType,
                   colorMode |-> params.NDColorMode,
                   convert |-> fmt.status,
                   evtPixelType |-> fmt.evtPixelType,
                   afterPublish |-> <<>>,
                   selfStop |-> th[t].selfStop,
                   streamClosed |-> th[t].streamClosed,
                   ndFormat |-> NoFormat]
    IN
    /\ Running /\ pc[t] = "loop"
    /\ UNCHANGED requests
    /\ IF imageCollectionThreadActive = 1
       THEN /\ pc' = [pc EXCEPT ![t] = IF fmt.status = asynError
                                       THEN "exit" ELSE "acqStart"]
            /\ th' = [th EXCEPT ![t] = locals]
       ELSE /\ pc' = [pc EXCEPT ![t] = "exit"]
            /\ UNCHANGED th
    /\ UNCHANGED <<connected, pdeviceInfo, cameraOpen, streamOpen, evt_status,
                   imageCollectionThreadActive, imageThreadOpen, params,
                   published, reply, crashed>>

\* Lines 593-613: the loop condition and, when it holds, the snapshot of the
\* acquisition parameters that starts an iteration and the resolution of the
\* device pixel format.  When the format does not resolve the iteration does
\* nothing more and the loop condition is tested again.
LoopHead(t) ==
    LET fmt == getFrameFormatEVT(params.NDDataType, params.NDColorMode)
        locals == [imageMode |-> params.ADImageMode,
                   imageCounter |-> params.ADNumImagesCounter,
                   status |-> asynSuccess,
                   nAlloc |-> 0, nRelease |-> 0, after |-> "none",
                   dataType |-> params.NDDataType,
                   colorMode |-> params.NDColorMode,
                   convert |-> fmt.status,
                   evtPixelType |-> fmt.evtPixelType,
                   afterPublish |-> <<>>,
                   selfStop |-> th[t].selfStop,
                   streamClosed |-> th[t].streamClosed,
                   ndFormat |-> NoFormat]
    IN
    /\ Running /\ pc[t] = "loop"
    /\ UNCHANGED requests
    /\ IF imageCollectionThreadActive = 1
       THEN /\ pc' = [pc EXCEPT ![t] = IF fmt.status = asynError
                                       THEN "loop" ELSE "acqStart"]
            /\ th' = [th EXCEPT ![t] = locals]
       ELSE /\ pc' = [pc EXCEPT ![t] = "exit"]
            /\ UNCHANGED th
    /\ UNCHANGED <<connected, pdeviceInfo, cameraOpen, streamOpen, evt_status,
                   imageCollectionThreadActive, imageThreadOpen, params,
                   published, reply, crashed>>

\* The device calls of one iteration, in order (lines 616-641), each made only
\* while err == EVT_SUCCESS.
CaptureCalls == <<"acqStart", "alloc", "queue", "trigger", "getFrame", "acqStop">>
CapturePcs == {CaptureCalls[i] : i \in 1..Len(CaptureCalls)}
IndexOf(label) == CHOOSE i \in 1..Len(CaptureCalls) : CaptureCalls[i] = label
NextCall(label) ==
    IF IndexOf(label) = Len(CaptureCalls) THEN "convert"
    ELSE CaptureCalls[IndexOf(label) + 1]

\* Whether the iteration reaches EVT_ReleaseFrameBuffer when the capture call
\* at `label` has returned r: line 663 lies inside if(err == EVT_SUCCESS) of line 645.
SkipsRelease(r) == r # EVT_SUCCESS

\* One capture call as it would be if a failed device call ended the loop (a
\* break after the reportEVTError of lines 617-642).
CaptureCall_ErrorEndsLoop(t, r) ==
    /\ Running /\ pc[t] \in CapturePcs
    /\ UNCHANGED requests
    /\ IF SkipsRelease(r)
       THEN /\ pc' = [pc EXCEPT ![t] = "exit"]
            /\ th' = [th EXCEPT ![t].imageMode = "none", ![t].imageCounter = 0]
       ELSE /\ pc' = [pc EXCEPT ![t] = NextCall(pc[t])]
            /\ th' = [th EXCEPT ![t].nAlloc = IF pc[t] = "alloc" THEN 1 ELSE @]
    /\ UNCHANGED <<connected, pdeviceInfo, cameraOpen, streamOpen, evt_status,
                   imageCollectionThreadActive, imageThreadOpen, params,
                   published, reply, crashed>>

\* One capture call.  An error makes every later call and the whole block of
\* lines 645-691 be skipped: the iteration is over.
\*   r : what the call returns
CaptureCall(t, r) ==
    /\ Running /\ pc[t] \in CapturePcs
    /\ UNCHANGED requests
    /\ IF SkipsRelease(r)
       THEN /\ pc' = [pc EXCEPT ![t] = "loop"]
            /\ th' = [th EXCEPT ![t].imageMode = "none", ![t].imageCounter = 0]
       ELSE /\ pc' = [pc EXCEPT ![t] = NextCall(pc[t])]
            /\ th' = [th EXCEPT ![t].nAlloc = IF pc[t] = "alloc" THEN 1 ELSE @]
    /\ UNCHANGED <<connected, pdeviceInfo, cameraOpen, streamOpen, evt_status,
                   imageCollectionThreadActive, imageThreadOpen, params,
                   published, reply, crashed>>

\* The uniqueId the published NDArray carries (line 650): the value of
\* ADNumImagesCounter read at the top of the iteration.
UniqueId(t) == th[t].imageCounter

\* What evtCallback does through pArray once doCallbacksGenericPointer has
\* returned: it reads the array's dimensions and size (line 653) and gives up
\* its reference (line 659).
AfterPublish == <<"getInfo", "release">>

\* Lines 647-659: evtFrame2NDArray, and on success the publication.
\*   ok   : whether pNDArrayPool->alloc returned an array
\*   dies : whether release() through the NULL pointer (line 556) kills the process
Convert(t, ok, dies) ==
    /\ Running /\ pc[t] = "convert"
    /\ UNCHANGED requests
    /\ dies => ~ok
    /\ crashed' = dies
    /\ IF ok
       THEN /\ published' = Append(published, UniqueId(t))
            /\ th' = [th EXCEPT ![t].afterPublish = AfterPublish,
                                ![t].ndFormat = getFrameFormatND(th[t].evtPixelType)]
       ELSE /\ th' = [th EXCEPT ![t].status = asynError,
                                ![t].ndFormat = getFrameFormatND(th[t].evtPixelType)]
            /\ UNCHANGED published
    /\ pc' = [pc EXCEPT ![t] = "release"]
    /\ UNCHANGED <<connected, pdeviceInfo, cameraOpen, streamOpen, evt_status,
                   imageCollectionThreadActive, imageThreadOpen, params, reply>>

\* Whether the iteration ends the acquisition (lines 669, 675, 680-685).
\*   counter : ADNumImagesCounter after the increment of line 666
StopsAfter(t, counter) ==
    \/ th[t].status = asynError
    \/ th[t].imageMode = ADImageSingle
    \/ th[t].imageMode = ADImageMultiple /\ counter = params.ADNumImages

\* Lines 663-690: the frame buffer is released, the counter advanced, and the
\* thread decides whether to stop; if so it clears imageThreadOpen and enters
\* acquireStop (lines 370-379).  selfStop remembers, for as long as the thread
\* lives, that it has taken one of the three stopping branches.
Release(t) ==
    LET counter == params.ADNumImagesCounter + 1
        after == IF th[t].status = asynError THEN "exit" ELSE "loop"
        done == [th[t] EXCEPT !.nRelease = 1, !.imageMode = "none",
                              !.imageCounter = 0, !.status = asynSuccess,
                              !.afterPublish = <<>>,
                              !.selfStop = @ \/ StopsAfter(t, counter)]
    IN  /\ Running /\ pc[t] = "release"
        /\ UNCHANGED requests
        /\ params.ADNumImagesCounter < MaxCounter
        /\ params' = [params EXCEPT !.ADNumImagesCounter = counter]
        /\ IF StopsAfter(t, counter)
           THEN /\ imageThreadOpen' = 0
                /\ IF connected = 0
                   THEN /\ pc' = [pc EXCEPT ![t] = after]
                        /\ th' = [th EXCEPT ![t] = done]
                        /\ UNCHANGED imageCollectionThreadActive
                   ELSE /\ imageCollectionThreadActive' = 0
                        /\ pc' = [pc EXCEPT ![t] = "stop_poll"]
                        /\ th' = [th EXCEPT ![t] = [done EXCEPT !.after = after]]
           ELSE /\ pc' = [pc EXCEPT ![t] = "loop"]
                /\ th' = [th EXCEPT ![t] = done]
                /\ UNCHANGED <<imageThreadOpen, imageCollectionThreadActive>>
        /\ UNCHANGED <<connected, pdeviceInfo, cameraOpen, streamOpen, evt_status,
                       published, reply, crashed>>

\* Line 695 and the return of evtCallback: the thread is gone.
ThreadExit(t) ==
    /\ Running /\ pc[t] = "exit"
    /\ UNCHANGED requests
    /\ imageThreadOpen' = 0
    /\ pc' = [pc EXCEPT ![t] = "dead"]
    /\ th' = [th EXCEPT ![t] = NoLocals]
    /\ UNCHANGED <<connected, pdeviceInfo, cameraOpen, streamOpen, evt_status,
                   imageCollectionThreadActive, params, published, reply, crashed>>

evtCallback(t) ==
    \/ ThreadBegin(t)
    \/ LoopHead(t)
    \/ \E r \in EVT_Results : CaptureCall(t, r)
    \/ \E ok \in BOOLEAN, dies \in BOOLEAN : Convert(t, ok, dies)
    \/ Release(t)
    \/ ThreadExit(t)

Producer == \E t \in Threads : evtCallback(t)

\* ------------------------------------------------ specification

Next ==
    \/ Connect
    \/ Disconnect
    \/ WriteAcquire
    \/ StartThread
    \/ StopPoll
    \/ WriteImageMode
    \/ WriteNumImages
    \/ Return
    \/ Producer

Spec == Init /\ [][Next]_vars

\* The same program with a device that never fails: every EVT_* call returns
\* EVT_SUCCESS and the NDArray pool always has an array.  Undefined behaviour
\* of the program itself stays as it is.
HealthyProducer(t) ==
    \/ ThreadBegin(t)
    \/ LoopHead(t)
    \/ CaptureCall(t, EVT_SUCCESS)
    \/ Convert(t, TRUE, FALSE)
    \/ Release(t)
    \/ ThreadExit(t)

NextHealthy ==
    \/ \E found \in {"noDevice", "noMatch", "match"}, dies \in BOOLEAN :
            connectToDeviceEVT(found, EVT_SUCCESS, dies)
    \/ \E dies \in BOOLEAN : disconnectFromDeviceEVT(EVT_SUCCESS, dies)
    \/ \E value \in {0, 1} : writeInt32_ADAcquire(value, EVT_SUCCESS)
    \/ StartThread
    \/ \E self \in Procs : acquireStopPoll(self, EVT_SUCCESS)
    \/ WriteImageMode
    \/ WriteNumImages
    \/ Return
    \/ \E t \in Threads : HealthyProducer(t)

SpecHealthy == Init /\ [][NextHealthy]_vars

\* The program with a device that never fails and a client that also selects
\* the data type and the colour mode.
NextFormats ==
    \/ NextHealthy
    \/ WriteDataType
    \/ WriteColorMode

SpecFormats == Init /\ [][NextFormats]_vars

\* The control thread alone, with a client that connects, disconnects and
\* writes the device parameters.
NextParams ==
    \/ Connect
    \/ Disconnect
    \/ WriteDeviceParam
    \/ WriteAcquireTime
    \/ WriteGain
    \/ Return

SpecParams == Init /\ [][NextParams]_vars

\* The program with a device that never fails on the producer's side and a
\* client that also writes the device parameters while it starts and stops
\* acquisitions.
NextTuning ==
    \/ NextHealthy
    \/ WriteDeviceParam
    \/ WriteAcquireTime
    \/ WriteGain

SpecTuning == Init /\ [][NextTuning]_vars

\* The object after a constructor that was given a serial number and whose
\* connectToDeviceEVT (line 1194) found the device and opened it.
InitConnected ==
    /\ connected = 1
    /\ pdeviceInfo = "alloc"
    /\ cameraOpen = TRUE
    /\ streamOpen = FALSE
    /\ evt_status = EVT_SUCCESS
    /\ imageCollectionThreadActive = 0
    /\ imageThreadOpen = 0
    /\ params = [ADAcquire |-> 0, ADStatus |-> ADStatusIdle,
                 ADImageMode |-> ADImageContinuous, ADNumImages |-> 1,
                 ADNumImagesCounter |-> 0, ADEVT_Framerate |-> 0,
                 NDDataType |-> NDUInt8, NDColorMode |-> NDColorModeMono,
                 ADEVT_OffsetX |-> 0, ADEVT_OffsetY |-> 0, ADEVT_BufferNum |-> 0,
                 ADEVT_PacketSize |-> 0, ADAcquireTime |-> 0, ADGain |-> 0]
    /\ pc = [p \in Procs |-> IF p = CTL THEN "idle" ELSE "dead"]
    /\ th = [t \in Threads |-> NoLocals]
    /\ published = <<>>
    /\ reply = NoReply
    /\ crashed = FALSE
    /\ requests = 0

\* The program started connected, with a device that never fails and a client
\* that runs acquisition sessions and sets the image count only between them,
\* while the engine is Idle and no producer is left.
ConfigureNumImages ==
    /\ params.ADStatus = ADStatusIdle /\ params.ADAcquire = 0
    /\ AliveThreads = {}
    /\ WriteNumImages

NextSessions ==
    \/ \E value \in {0, 1} : writeInt32_ADAcquire(value, EVT_SUCCESS)
    \/ StartThread
    \/ \E self \in Procs : acquireStopPoll(self, EVT_SUCCESS)
    \/ WriteImageMode
    \/ ConfigureNumImages
    \/ Return
    \/ \E t \in Threads : HealthyProducer(t)

SpecSessions == InitConnected /\ [][NextSessions]_vars

\* The tuned engine with a device whose EVT_CameraClose may fail.
NextTeardown ==
    \/ NextTuning
    \/ \E dies \in BOOLEAN : disconnectFromDeviceEVT(EVT_ERROR, dies)

SpecTeardown == Init /\ [][NextTeardown]_vars

TypeOK ==
    /\ connected \in {0, 1}
    /\ pdeviceInfo \in {"NULL", "wild", "alloc", "freed"}
    /\ imageCollectionThreadActive \in {0, 1}
    /\ imageThreadOpen \in {0, 1}
    /\ params.ADNumImagesCounter \in 0..MaxCounter
    /\ requests \in 0..MaxRequests

\* ------------------------------------------------ vocabulary of the claims

\* A producer is inside an iteration of the capture loop.
InIteration(t) == pc[t] \in CapturePcs \cup {"convert", "release"}

\* A producer's last iteration is over (or it never ran one).
IterationOver(t) == pc[t] \in {"loop", "stop_poll", "exit", "dead"}

\* The step in which the control thread takes request op(arg).
Takes(op, arg) == reply.op = "none" /\ reply'.op = op /\ reply'.arg = arg

\* The control thread has just returned from handler op(arg).
ReturnedFrom(op, arg) == reply.op = op /\ reply.arg = arg /\ Observing

\* ------------------------------------------------ claims

\* C1: at most one producer thread (evtCallback execution) is alive at any
\* instant, for every sequence of start and stop requests.
C1_AtMostOneProducer == Cardinality(AliveThreads) <= 1

\* C2: when a capture-loop iteration has ended, on whatever path, the number
\* of EVT_AllocateFrameBuffer calls that allocated a buffer in it equals the
\* number of EVT_ReleaseFrameBuffer calls made in it.
C2_AllocationsReleased ==
    \A t \in Threads : IterationOver(t) => th[t].nAlloc = th[t].nRelease

\* The engine is acquiring in image mode m: the last start() succeeded, no stop
\* has completed since, and the mode is m.
AcquiringIn(m) ==
    /\ connected = 1
    /\ params.ADAcquire = 1 /\ params.ADStatus = ADStatusAcquire
    /\ params.ADImageMode = m

\* C3: in single-image mode one ImageBuffer is published per start(), after
\* which the engine stops: when a producer running in single-image mode has
\* published, no other frame has been published since the last start().
C3_SingleImagePublishesOne ==
    \A t \in Threads :
        (AcquiringIn(ADImageSingle) /\ pc[t] = "release"
            /\ th[t].imageMode = ADImageSingle /\ th[t].status = asynSuccess)
            => Len(published) <= 1

\* C4: in multi-image mode with count N a start() publishes ImageBuffers whose
\* sequence ids are 1..N in order: the k-th frame published since the start
\* carries id k, and no more than N are published.
C4_MultiImageSequenceIds ==
    \A t \in Threads :
        (pc[t] = "release" /\ th[t].imageMode = ADImageMultiple
                           /\ th[t].status = asynSuccess)
            => /\ Len(published) <= params.ADNumImages
               /\ \A k \in 1..Len(published) : published[k] = k

C6_FailedStartLeavesNothing ==
    (ReturnedFrom("writeAcquire", 1) /\ reply.ret = asynError /\ reply.calls # {})
        => /\ params.ADStatus = ADStatusIdle
           /\ imageCollectionThreadActive = 0
           /\ AliveThreads = {}
           /\ ~streamOpen

\* C7: after every failed start(), whatever the cause, the acquire indicator
\* reads 0.
C7_FailedStartClearsAcquire ==
    (ReturnedFrom("writeAcquire", 1) /\ reply.ret = asynError)
        => params.ADAcquire = 0

\* C8: a start() while no device is connected is rejected with an error and
\* leaves the engine unchanged: no parameter (framerate included), no flag,
\* no device call.
C8_StartUnconnectedChangesNothing ==
    [][(Takes("writeAcquire", 1) /\ connected = 0 /\ params.ADAcquire = 0)
          => /\ reply'.ret = asynError
             /\ reply'.calls = {}
             /\ EngineState' = EngineState]_vars

\* C9: when disconnect() closes the device handle, acquisition has been
\* stopped: the active flag is clear and no producer is in or about to enter
\* the capture loop.
C9_DisconnectStopsAcquisition ==
    (ReturnedFrom("disconnect", "none") /\ "EVT_CameraClose" \in reply.calls)
        => /\ imageCollectionThreadActive = 0
           /\ \A t \in Threads : pc[t] \in {"exit", "dead"}

\* C10: disconnect() on an engine that is not connected returns an error and
\* has no side effect: nothing is passed to free() and no device close is issued.
C10_DisconnectIdempotent ==
    [][(Takes("disconnect", "none") /\ connected = 0)
          => /\ reply'.ret = asynError
             /\ reply'.calls = {}
             /\ reply'.freed = "none"
             /\ EngineState' = EngineState]_vars

\* The step in which the control thread takes a connect request.
TakesConnect == reply.op = "none" /\ reply'.op = "connect"

\* C11: connect() when no enumerated device carries the requested serial
\* number, from a disconnected engine, returns an error, leaves the connected
\* flag clear and opens no device.
C11_NoMatchStaysDisconnected ==
    [][(Takes("connect", "noMatch") /\ connected = 0)
          => /\ reply'.ret = asynError
             /\ connected' = 0
             /\ "EVT_CameraOpen" \notin reply'.calls]_vars

\* C12: the engine holds at most one device descriptor and one device handle:
\* connect() allocates a descriptor only when the previous one has been
\* released, and opens a handle only when none is open.
C12_OneHandleOneDescriptor ==
    [][TakesConnect
          => /\ reply'.arg = "match" => pdeviceInfo # "alloc"
             /\ ("EVT_CameraOpen" \in reply'.calls /\ evt_status' = EVT_SUCCESS)
                    => ~cameraOpen]_vars

\* C13: a failed connect() on a disconnected engine leaves the engine as it
\* was: connected flag clear, no descriptor retained, no handle retained.
C13_FailedConnectChangesNothing ==
    [][(TakesConnect /\ connected = 0 /\ reply'.ret = asynError)
          => /\ connected' = 0
             /\ pdeviceInfo' = pdeviceInfo
             /\ cameraOpen' = cameraOpen]_vars

\* The step in which the control thread takes a write of a device parameter.
TakesParamWrite == reply.op = "none" /\ reply'.op = "writeParam"

\* The value handed to the device lies outside the bounds the device reports.
OutOfRange(w) == w.device < w.min \/ w.device > w.max

\* C14: a write of an integer device parameter (framerate, offsets, buffer
\* count, packet size, gain, exposure) of a connected device with a value
\* outside the bounds the device reports returns an error and issues no
\* device write.
C14_OutOfRangeNeverWritten ==
    [][(TakesParamWrite /\ connected = 1 /\ OutOfRange(reply'.arg))
          => /\ reply'.ret = asynError
             /\ reply'.calls \cap DeviceWrites = {}]_vars

\* C15: when a parameter write fails, the parameter library still holds the
\* value the parameter had before the write.
C15_FailedWriteKeepsStoredValue ==
    [][(TakesParamWrite /\ reply'.ret = asynError)
          => params'[reply'.arg.name] = params[reply'.arg.name]]_vars

\* The (colour mode, data type) pairs getFrameFormatEVT has a case for, each
\* with its device format.
FormatTable ==
    { <<NDColorModeMono,  NDUInt8,  "GVSP_PIX_MONO8">>,
      <<NDColorModeMono,  NDUInt16, "UNPACK_PIX_MONO16">>,
      <<NDColorModeRGB1,  NDUInt8,  "GVSP_PIX_RGB8">>,
      <<NDColorModeRGB1,  NDUInt16, "UNPACK_PIX_RGB16">>,
      <<NDColorModeBayer, NDUInt8,  "CONVERT_PIX_BAYRG8">>,
      <<NDColorModeBayer, NDUInt16, "CONVERT_PIX_BAYRG16">> }

\* The table rows for one selection.
FormatRows(colorMode, dataType) ==
    {e \in FormatTable : e[1] = colorMode /\ e[2] = dataType}

\* C16: the pixel-format resolver is total and table-driven: whatever the
\* engine state, a resolution a producer has made is the table's format for
\* the selection it read, and for a selection outside the table it is an error
\* that wrote no format and is followed by no capture call.
C16_ResolverTotalTableDriven ==
    \A t \in Threads :
        th[t].convert # "none" =>
            IF FormatRows(th[t].colorMode, th[t].dataType) = {}
            THEN /\ th[t].convert = asynError
                 /\ th[t].evtPixelType = "unset"
                 /\ ~InIteration(t)
            ELSE /\ th[t].convert = asynSuccess
                 /\ \E e \in FormatRows(th[t].colorMode, th[t].dataType) :
                        th[t].evtPixelType = e[3]

\* C16 witness: a producer of a running acquisition has resolved a selection
\* outside the table and holds the error.
C16_Witness ==
    \E t \in Threads :
        /\ pc[t] = "loop" /\ imageCollectionThreadActive = 1
        /\ th[t].colorMode = NDColorModeRGB2 /\ th[t].dataType = NDUInt16
        /\ th[t].convert = asynError /\ th[t].evtPixelType = "unset"

\* C17: start() is gated on the pixel format: when the selected colour mode
\* and data type do not resolve to a device format, a start() on a connected
\* engine fails and the engine neither enters Acquiring nor has a producer.
C17_StartGatedOnFormat ==
    (/\ ReturnedFrom("writeAcquire", 1) /\ reply.calls # {}
     /\ getFrameFormatEVT(params.NDDataType, params.NDColorMode).status = asynError)
        => /\ reply.ret = asynError
           /\ params.ADStatus # ADStatusAcquire
           /\ AliveThreads = {}

\* Process p is executing acquireStart or acquireStop.
InStartOrStop(p) == pc[p] \in {"start_thread", "stop_poll"}

\* C18: executions of acquireStart and acquireStop never overlap, whichever
\* thread runs them (the control thread, or a producer stopping itself).
C18_StartStopNeverOverlap ==
    Cardinality({p \in Procs : InStartOrStop(p)}) <= 1

\* C19: a stop() requested while Acquiring ends (its poll loop terminates)
\* with the state Idle: when the stop request has returned, ADStatus is Idle.
C19_StopEndsIdle ==
    ReturnedFrom("writeAcquire", 0) => params.ADStatus = ADStatusIdle

\* C20: a failure of EVT_CameraCloseStream does not block the stop: the
\* execution of acquireStop that got the error ends with ADStatus Idle and
\* ADAcquire 0, and hands the error to the caller only as its status.
C20_CloseFailureDoesNotBlock ==
    [][\A self \in Procs :
          (pc[self] = "stop_poll" /\ pc'[self] # "stop_poll"
                /\ evt_status' = EVT_ERROR)
             => /\ params'.ADStatus = ADStatusIdle
                /\ params'.ADAcquire = 0
                /\ (self = CTL /\ reply.op = "writeAcquire")
                      => reply'.ret = asynError]_vars

\* C20 witness: a stop request has returned the stream-close error after the
\* producer exited; the stream is still open and the engine is Idle.
C20_Witness ==
    /\ ReturnedFrom("writeAcquire", 0) /\ reply.ret = asynError
    /\ "EVT_CameraCloseStream" \in reply.calls
    /\ evt_status = EVT_ERROR /\ streamOpen
    /\ AliveThreads = {}
    /\ params.ADStatus = ADStatusIdle /\ params.ADAcquire = 0

\* C21: while the engine is Acquiring every device call is made by the
\* producer thread: a parameter write taken by the control thread while the
\* status is Acquire and a producer is inside a capture iteration issues no
\* device call.
C21_DeviceCallsOnlyByProducer ==
    [][(TakesParamWrite /\ params.ADStatus = ADStatusAcquire
                        /\ \E t \in Threads : InIteration(t))
          => reply'.calls = {}]_vars

\* The acquisition parameters evtCallback reads without the port lock: at the
\* top of every iteration (lines 604-609) and when it decides whether the
\* iteration is the last (line 683).
SnapshotParams == {"ADImageMode", "ADNumImages", "NDDataType", "NDColorMode"}

\* The step in which the control thread takes a request, whichever it is.
TakesAnyRequest == reply.op = "none" /\ reply'.op # "none"

\* C22: the acquisition parameters the producer snapshots are modified only
\* while the engine is Idle: no request taken while a producer thread is
\* inside a capture iteration changes the image mode, the image count, the
\* data type or the colour mode.
C22_SnapshotParamsFrozen ==
    [][(TakesAnyRequest /\ \E t \in Threads : InIteration(t))
          => \A n \in SnapshotParams : params'[n] = params[n]]_vars

\* C23: a conversion error in the capture loop stops the acquisition: nothing
\* is done through the array pointer that failed to allocate (the process
\* survives the failed conversion), the frame buffer is released, the loop is
\* left, and when the thread reaches its exit the status is Idle and the
\* acquire indicator 0.
C23_ConversionErrorStops ==
    [][\A t \in Threads :
          /\ (pc[t] = "convert" /\ pc'[t] = "release" /\ th'[t].status = asynError)
                => ~crashed'
          /\ (pc[t] = "release" /\ pc'[t] # "release" /\ th[t].status = asynError)
                => /\ th'[t].nRelease = th'[t].nAlloc
                   /\ pc'[t] \in {"stop_poll", "exit"}
          /\ (pc[t] \in {"release", "stop_poll"} /\ pc'[t] = "exit")
                => /\ params'.ADStatus = ADStatusIdle
                   /\ params'.ADAcquire = 0]_vars

\* C24: the sequence ids of the ImageBuffers published since a start strictly
\* increase: of two frames published one after the other the later carries
\* the greater uniqueId.
C24_SequenceIdsIncrease ==
    \A k \in 1..(Len(published) - 1) : published[k] < published[k + 1]

\* C25: once the capture loop has handed an ImageBuffer to the output sink it
\* performs no further read or write of the buffer's contents or metadata:
\* no iteration holds an access made through pArray after the publication.
C25_NoTouchAfterPublish ==
    \A t \in Threads : th[t].afterPublish = <<>>

\* C26: ADStatus starts at Idle and changes only along Idle -> Starting ->
\* Acquiring -> Stopping -> Idle: it becomes Acquire only at the end of an
\* acquireStart that was entered in Idle, opened the stream and launched a
\* producer thread, and it becomes Idle again only at the end of an
\* acquireStop (requested or run by the producer) or of a failed acquireStart.
C26_StateSequence ==
    [][/\ (params.ADStatus # ADStatusAcquire /\ params'.ADStatus = ADStatusAcquire)
            => /\ pc[CTL] = "start_thread" /\ pc'[CTL] = "idle"
               /\ evt_status = EVT_SUCCESS /\ streamOpen
               /\ \E t \in Threads : pc[t] = "dead" /\ pc'[t] = "begin"
       /\ (params.ADStatus # ADStatusIdle /\ params'.ADStatus = ADStatusIdle)
            => \/ \E p \in Procs : pc[p] = "stop_poll" /\ pc'[p] # "stop_poll"
               \/ pc[CTL] = "start_thread" /\ pc'[CTL] = "idle"
                                           /\ reply'.ret = asynError]_vars

\* The selection a producer would read now does not resolve to a device format.
FormatUnresolved ==
    getFrameFormatEVT(params.NDDataType, params.NDColorMode).status = asynError

\* C27: when the pixel format does not resolve at the top of an iteration only
\* that iteration is aborted: the thread is back at the loop condition with no
\* frame buffer allocated, no device call made and nothing published, and the
\* active flag is still set.
C27_FormatFailureAbortsIteration ==
    [][\A t \in Threads :
          (LoopHead(t) /\ imageCollectionThreadActive = 1 /\ FormatUnresolved)
             => /\ pc'[t] = "loop"
                /\ th'[t].convert = asynError
                /\ th'[t].nAlloc = 0 /\ th'[t].nRelease = 0
                /\ published' = published
                /\ evt_status' = evt_status /\ streamOpen' = streamOpen
                /\ imageCollectionThreadActive' = 1]_vars

\* C27 witness: after a frame was published the selection was changed to one
\* that does not resolve; the producer has aborted an iteration on it and is at
\* the loop condition of a still active acquisition.
C27_Witness ==
    \E t \in Threads :
        /\ pc[t] = "loop" /\ th[t].convert = asynError
        /\ th[t].nAlloc = 0
        /\ Len(published) >= 1
        /\ imageCollectionThreadActive = 1
        /\ params.ADStatus = ADStatusAcquire

\* C28: a producer thread of a connected engine that has initiated its
\* self-stop (single-image mode after one frame, multi-image mode on reaching
\* the count) executes no further capture iteration, whatever the control
\* thread does before the thread evaluates its loop condition again.
C28_SelfStoppedRunsNoIteration ==
    \A t \in Threads : (th[t].selfStop /\ connected = 1) => ~InIteration(t)

\* C29: the stream is closed only after the camera acquisition has completed:
\* an evtCallback execution that was alive when an acquireStop of the control
\* thread passed its poll of imageThreadOpen and issued EVT_CameraCloseStream
\* is in no capture iteration then, and enters none afterwards.
C29_NoCaptureAfterClose ==
    \A t \in Threads : th[t].streamClosed => ~InIteration(t)

\* C30: stream open and close are balanced: whichever thread runs acquireStop,
\* EVT_CameraCloseStream is issued only while the stream opened by the last
\* successful EVT_CameraOpenStream is still open, so at most once per open
\* and never with no stream open.
C30_StreamOpenCloseBalanced ==
    [][\A self \in Procs :
          (pc[self] = "stop_poll" /\ pc'[self] # "stop_poll") => streamOpen]_vars

\* C31: a capture-loop iteration in which a device call fails publishes no
\* ImageBuffer, leaves the image counter (and so the next sequence id) as it
\* was, hands nothing to any caller, and does not by itself end the loop: the
\* thread is back at the loop condition and the active flag is untouched.
C31_FailedCaptureIsSilent ==
    [][\A t \in Threads :
          CaptureCall(t, EVT_ERROR)
             => /\ published' = published
                /\ params' = params
                /\ reply' = reply /\ evt_status' = evt_status
                /\ pc'[t] = "loop"
                /\ imageCollectionThreadActive' = imageCollectionThreadActive
                /\ imageThreadOpen' = imageThreadOpen]_vars

\* C31 witness: after one frame was published, a device call made after the
\* frame buffer was allocated failed; the producer is back at the loop
\* condition of the still active acquisition with the counter at 1.
C31_Witness ==
    \E t \in Threads :
        /\ pc[t] = "loop" /\ th[t].nAlloc = 1 /\ th[t].nRelease = 0
        /\ published = <<0>> /\ params.ADNumImagesCounter = 1
        /\ imageCollectionThreadActive = 1 /\ imageThreadOpen = 1
        /\ params.ADStatus = ADStatusAcquire

\* C32: a multi-image session with count N stops after finitely many
\* successful iterations, whatever the counter was when it started.  The
\* counter only grows and the loop stops only on the iteration that makes it
\* equal to N, so a session that stops is never found still running, its only
\* producer back at the loop condition after a completed iteration, when the
\* session's first frame was taken with the counter already at N or above.
C32_MultiImageSessionStops ==
    \A t \in Threads :
        (/\ pc[t] = "loop" /\ th[t].nRelease = 1 /\ AliveThreads = {t}
         /\ imageCollectionThreadActive = 1
         /\ AcquiringIn(ADImageMultiple)
         /\ Len(published) >= 1)
            => published[1] < params.ADNumImages

\* Producer u belongs to a continuous acquisition that nothing is stopping: it
\* is in or before its capture loop with the active flag set, it stops on no
\* iteration of its own, and the control thread runs no handler.  Left alone
\* it iterates for ever and never clears imageThreadOpen.
RunsOn(u) ==
    /\ pc[u] \in {"begin", "loop", "convert", "release"} \cup CapturePcs
    /\ imageCollectionThreadActive = 1
    /\ params.ADImageMode = ADImageContinuous
    /\ th[u].imageMode \in {"none", ADImageContinuous}
    /\ th[u].status = asynSuccess
    /\ pc[CTL] = "idle"

\* C33: the producer's self-stop never blocks: a producer that called
\* acquireStop from inside the capture loop is never held in the poll of
\* imageThreadOpen by a flag that no thread is going to clear.
C33_SelfStopNeverBlocks ==
    \A t \in Threads :
        (pc[t] = "stop_poll" /\ imageThreadOpen = 1)
            => ~ \E u \in Threads \ {t} : RunsOn(u)

\* C34: whenever no acquireStart or acquireStop is in progress on a connected
\* engine, the acquire indicator, the active flag and the existence of a live
\* producer thread agree: ADAcquire is 1 iff imageCollectionThreadActive is 1
\* iff a producer thread is alive, and ADStatus Idle implies the flag is clear.
C34_IndicatorFlagThreadAgree ==
    (connected = 1 /\ \A p \in Procs : ~InStartOrStop(p))
        => /\ (params.ADAcquire = 1) <=> (imageCollectionThreadActive = 1)
           /\ (imageCollectionThreadActive = 1) <=> (AliveThreads # {})
           /\ params.ADStatus = ADStatusIdle => imageCollectionThreadActive = 0

\* The step is a write of ADAcquireTime on a connected engine in which at
\* least one of the two bound queries of setEVTExposure failed.
ExposureWriteWithFailedQuery ==
    \E value \in Values,
       min \in DeviceValues("ADAcquireTime"), max \in DeviceValues("ADAcquireTime"),
       rMax \in EVT_Results, rMin \in EVT_Results,
       gMax \in DeviceValues("ADAcquireTime"), gMin \in DeviceValues("ADAcquireTime"),
       r \in EVT_Results :
        /\ connected = 1
        /\ min <= max
        /\ rMax = EVT_ERROR \/ rMin = EVT_ERROR
        /\ rMax = EVT_SUCCESS => gMax = max
        /\ rMin = EVT_SUCCESS => gMin = min
        /\ writeFloat64_ADAcquireTime(value, min, max, rMax, rMin, gMax, gMin, r)

\* C35: setting the exposure queries the device's minimum and maximum before
\* writing, and when either query fails no exposure write is issued and the
\* set returns an error.
C35_FailedBoundQueryBlocksWrite ==
    [][ExposureWriteWithFailedQuery
          => /\ ExposureQueries \subseteq reply'.calls
             /\ reply'.ret = asynError
             /\ DeviceWrite("ADAcquireTime") \notin reply'.calls]_vars

\* The device write that addresses the device parameter an engine parameter
\* stands for.  The device's buffer count is its "BufferNum" parameter, the
\* name setCameraValues uses (line 274).
OwnDeviceWrite(name) ==
    CASE name = "ADEVT_Framerate" -> "EVT_CameraSetUInt32Param(FrameRate)"
      [] name = "ADEVT_OffsetX"   -> "EVT_CameraSetUInt32Param(OffsetX)"
      [] name = "ADEVT_OffsetY"   -> "EVT_CameraSetUInt32Param(OffsetY)"
      [] name = "ADEVT_BufferNum" -> "EVT_CameraSetUInt32Param(BufferNum)"
      [] name = "ADGain"          -> "EVT_CameraSetUInt32Param(Gain)"
      [] name = "ADAcquireTime"   -> "EVT_CameraSetUInt32Param(Exposure)"
      [] OTHER                    -> "none"

\* C36: a write to an engine parameter changes only the device parameter that
\* corresponds to it: every device write the handler issues addresses that
\* parameter; in particular a write of the buffer count does not address the
\* device's Offset parameter.
C36_WriteAddressesOwnParameter ==
    [][TakesParamWrite
          => (reply'.calls \cap DeviceWrites) \subseteq
                 {OwnDeviceWrite(reply'.arg.name)}]_vars

\* C37: the two format mappings are inverse: whenever an iteration has
\* resolved its (color mode, data type) to a device pixel format and the
\* conversion has applied getFrameFormatND to the frame of that pixel format,
\* the data type and the color mode it returned are the ones the iteration
\* started from.
C37_FormatMappingsInverse ==
    \A t \in Threads :
        (th[t].convert = asynSuccess /\ th[t].ndFormat.status = asynSuccess)
            => /\ th[t].ndFormat.dataType = th[t].dataType
               /\ th[t].ndFormat.colorMode = th[t].colorMode

\* The state a disconnect leaves when its EVT_CameraClose has failed: the
\* descriptor is freed (line 210) and the camera is still open.
AfterFailedClose == connected = 0 /\ pdeviceInfo = "freed" /\ cameraOpen

\* The control thread takes a request that needs a connection: a start
\* (writeInt32 reaches acquireStart), a stop (it reaches acquireStop) or a
\* write of a device parameter.
TakesConnectionRequest ==
    /\ reply.op = "none"
    /\ \/ reply'.op = "writeAcquire" /\ reply'.arg # 0 /\ params.ADAcquire = 0
       \/ reply'.op = "writeAcquire" /\ reply'.arg = 0 /\ params.ADAcquire # 0
       \/ reply'.op = "writeParam"

\* C38: when EVT_CameraClose fails during a disconnect the engine still ends
\* disconnected: the connected flag is 0 afterwards, and a later start, stop
\* or device parameter write is rejected with asynError without any device
\* call and leaves the engine disconnected.
C38_FailedCloseStillDisconnects ==
    [][/\ (\E dies \in BOOLEAN : disconnectFromDeviceEVT(EVT_ERROR, dies))
            => connected' = 0
       /\ (AfterFailedClose /\ TakesConnectionRequest)
            => /\ reply'.ret = asynError
               /\ reply'.calls = {}
               /\ connected' = 0
               /\ pc'[CTL] = "idle"]_vars

====
